---- MODULE Spec2Model ----
(***************************************************************************)
(* The dual-number algebra of RealDuals.py (class RealDual) as a state     *)
(* machine: a receiver `self`, an argument `other`, and the outcome of the *)
(* last public operation applied to them.                                  *)
(*                                                                         *)
(* Numbers.  A Python number is a record [n, d, t]: the reduced fraction   *)
(* n/d (d > 0) and its Python type t ("int" or "float").  Arithmetic is    *)
(* exact over the rationals: the rounding, overflow and underflow of       *)
(* IEEE-754 doubles are not part of this model.  The type is kept because  *)
(* the code branches on it (check, float.is_integer).                      *)
(***************************************************************************)
EXTENDS Integers, Sequences, FiniteSets, TLC

VARIABLES self, other, op, result, int_is_integer, depth

vars == <<self, other, op, result, int_is_integer, depth>>

(***************************************************************************)
(* Bounds of the model.                                                    *)
(***************************************************************************)
\* operands are drawn from -MaxInt .. MaxInt (as int and as float)
MaxInt == 3
\* an exponent k/d is applied only for |k| <= MaxExp
MaxExp == 3
\* a result is fed back as an operand only if its components have
\* numerators within -MaxAbs .. MaxAbs
MaxAbs == 4
\* number of results fed back as operands in one run
MaxDepth == 1

(***************************************************************************)
(* Python numbers                                                          *)
(***************************************************************************)
Abs(k) == IF k < 0 THEN -k ELSE k

RECURSIVE GCD(_, _)
GCD(a, b) == IF b = 0 THEN a ELSE GCD(b, a % b)

\* the number n/d of type t, reduced, with a positive denominator
Rat(n, d, t) ==
    LET g == GCD(Abs(n), Abs(d))
        s == IF d < 0 THEN -1 ELSE 1
    IN  [n |-> (s * n) \div g, d |-> (s * d) \div g, t |-> t]

PyInt(k) == [n |-> k, d |-> 1, t |-> "int"]

PyFloat(n, d) == Rat(n, d, "float")

\* the type of the result of a binary arithmetic operator
Join(a, b) == IF a.t = "int" /\ b.t = "int" THEN "int" ELSE "float"

\* float(v)
float(v) == [v EXCEPT !.t = "float"]

num_neg(a) == [a EXCEPT !.n = -a.n]

num_add(a, b) == Rat(a.n * b.d + b.n * a.d, a.d * b.d, Join(a, b))

num_sub(a, b) == Rat(a.n * b.d - b.n * a.d, a.d * b.d, Join(a, b))

num_mul(a, b) == Rat(a.n * b.n, a.d * b.d, Join(a, b))

\* a / b, b nonzero: true division always gives a float
num_truediv(a, b) == Rat(a.n * b.d, a.d * b.n, "float")

\* a == b compares the values, whatever the types
num_eq(a, b) == a.n = b.n /\ a.d = b.d

num_lt(a, b) == a.n * b.d < b.n * a.d

RECURSIVE IntPow(_, _)
IntPow(b, k) == IF k = 0 THEN 1 ELSE b * IntPow(b, k - 1)

IsSquare(k) == \E r \in 0..k : r * r = k

ISqrt(k) == CHOOSE r \in 0..k : r * r = k

\* b ** k for an integer k: an int only for int ** non-negative int
IntegerPower(a, k, t) ==
    IF k >= 0 THEN Rat(IntPow(a.n, k), IntPow(a.d, k), t)
    ELSE Rat(IntPow(a.d, -k), IntPow(a.n, -k), "float")

\* a ** p.  A half-integer exponent is taken through the exact square root
\* of a; PowExact says when that root is rational.
num_pow(a, p) ==
    IF p.d = 1 THEN IntegerPower(a, p.n, Join(a, p))
    ELSE IntegerPower([n |-> ISqrt(a.n), d |-> ISqrt(a.d), t |-> "float"], p.n, "float")

PowExact(a, p) ==
    /\ Abs(p.n) <= MaxExp
    /\ a.n > 0 => \/ p.d = 1
                  \/ p.d = 2 /\ IsSquare(a.n) /\ IsSquare(a.d)

\* math.log(a), a > 0.  The logarithm is transcendental; the model carries
\* its Pade approximant 2(a-1)/(a+1), which has the logarithm's sign, its
\* zero at 1 and log(1/a) = -log(a).
math_log(a) == Rat(2 * (a.n - a.d), a.n + a.d, "float")

\* math.e, the base whose logarithm is 1: with the logarithm carried as
\* math_log, that base is 3.0 (math_log(3.0) = 1, as math.log(math.e) == 1.0)
math_e == PyFloat(3, 1)

\* math.sin(a) and math.cos(a), carried by their Taylor polynomials
\* a - a^3/6 and 1 - a^2/2, exact at 0
math_sin(a) == Rat(6 * a.n * a.d * a.d - a.n * a.n * a.n, 6 * a.d * a.d * a.d, "float")

math_cos(a) == Rat(2 * a.d * a.d - a.n * a.n, 2 * a.d * a.d, "float")

\* whether k/d has a finite decimal expansion: d has no prime factor but 2, 5
RECURSIVE FiniteDecimal(_)
FiniteDecimal(d) ==
    IF d % 2 = 0 THEN FiniteDecimal(d \div 2)
    ELSE IF d % 5 = 0 THEN FiniteDecimal(d \div 5)
    ELSE d = 1

\* the decimal digits of r/d, 0 < r < d
RECURSIVE FracDigits(_, _)
FracDigits(r, d) ==
    IF r = 0 THEN "" ELSE ToString((10 * r) \div d) \o FracDigits((10 * r) % d, d)

\* str(v) of a number, as an f-string renders {v}: the digits of an int; a
\* float always with a decimal point.  The model has no negative zero, which
\* Python renders as -0.0.
num_str(v) ==
    IF v.t = "int" THEN ToString(v.n)
    ELSE (IF v.n < 0 THEN "-" ELSE "")
         \o ToString(Abs(v.n) \div v.d) \o "."
         \o (IF Abs(v.n) % v.d = 0 THEN "0" ELSE FracDigits(Abs(v.n) % v.d, v.d))

(***************************************************************************)
(* Outcomes of an operation                                                *)
(***************************************************************************)
Value(v) == [kind |-> "value", val |-> v]

Bool(b) == [kind |-> "bool", val |-> b]

Text(t) == [kind |-> "str", val |-> t]

Raise(exc, src) == [kind |-> "raise", exc |-> exc, src |-> src]

NoResult == [kind |-> "none"]

\* an outcome that ends the expression it occurs in
Raised(o) == o.kind = "raise"

(***************************************************************************)
(* class RealDual                                                          *)
(***************************************************************************)
RealDual(real, dual) == [real |-> real, dual |-> dual]

\* operands: a RealDual instance, an int or float scalar, anything else
Dual(x) == [kind |-> "RealDual", val |-> x]

Scalar(v) == [kind |-> v.t, val |-> v]

NonNumeric == {[kind |-> "str", val |-> [text |-> "a"]],
               [kind |-> "NoneType", val |-> [text |-> "None"]]}

\* the failures of the algebra, as the code raises them
InvalidOperand == Raise("ValueError", "check")

DivisionByZero == Raise("ZeroDivisionError", "reciprocate")

UndefinedOperation == Raise("ValueError", "__pow__")

\* mutant of check: a scalar is lifted with a dual part of one
check_lifts_dual_one(maybe_dual_number) ==
    IF maybe_dual_number.kind = "RealDual" THEN Value(maybe_dual_number.val)
    ELSE IF maybe_dual_number.kind \in {"float", "int"}
         THEN Value(RealDual(float(maybe_dual_number.val), PyInt(1)))
         ELSE Raise("ValueError", "check")

check(maybe_dual_number) ==
    IF maybe_dual_number.kind = "RealDual" THEN Value(maybe_dual_number.val)
    ELSE IF maybe_dual_number.kind \in {"float", "int"}
         THEN Value(RealDual(float(maybe_dual_number.val), PyInt(0)))
         ELSE InvalidOperand

__neg__(s) == Value(RealDual(num_neg(s.real), num_neg(s.dual)))

__pos__(s) == Value(RealDual(s.real, s.dual))

\* mutant of conjugate: the sign of the dual part is kept
conjugate_keeps_sign(s) == Value(RealDual(s.real, s.dual))

conjugate(s) == Value(RealDual(s.real, num_neg(s.dual)))

__add__(s, o) ==
    LET c == check(o)
        x == c.val
    IN  IF Raised(c) THEN c
        ELSE Value(RealDual(num_add(s.real, x.real), num_add(s.dual, x.dual)))

__radd__(s, o) == __add__(s, o)

\* mutant of __mul__: the product of the dual parts is kept, as if the
\* square of epsilon were 1
mul_keeps_bd(s, o) ==
    LET c == check(o)
        x == c.val
    IN  IF Raised(c) THEN c
        ELSE Value(RealDual(num_mul(s.real, x.real),
                            num_add(num_add(num_mul(x.real, s.dual),
                                            num_mul(s.real, x.dual)),
                                    num_mul(s.dual, x.dual))))

__mul__(s, o) ==
    LET c == check(o)
        x == c.val
    IN  IF Raised(c) THEN c
        ELSE Value(RealDual(num_mul(s.real, x.real),
                            num_add(num_mul(x.real, s.dual), num_mul(s.real, x.dual))))

__rmul__(s, o) == __mul__(s, o)

\* mutant of reciprocate: the conjugate is divided by the real part, not by
\* its square
reciprocate_unsquared(s) ==
    IF num_eq(s.real, PyInt(0)) THEN DivisionByZero
    ELSE __mul__(conjugate(s).val, Scalar(num_truediv(PyInt(1), s.real)))

\* mutant of reciprocate: the guard tests the dual part
reciprocate_guards_dual(s) ==
    IF num_eq(s.dual, PyInt(0)) THEN DivisionByZero
    ELSE IF num_eq(s.real, PyInt(0)) THEN Raise("ZeroDivisionError", "float division")
    ELSE __mul__(conjugate(s).val,
                 Scalar(num_truediv(PyInt(1), num_pow(s.real, PyInt(2)))))

reciprocate(s) ==
    IF num_eq(s.real, PyInt(0)) THEN DivisionByZero
    ELSE __mul__(conjugate(s).val,
                 Scalar(num_truediv(PyInt(1), num_pow(s.real, PyInt(2)))))

__truediv__(s, denominator) ==
    LET c == check(denominator)
        r == reciprocate(c.val)
    IN  IF Raised(c) THEN c
        ELSE IF Raised(r) THEN r
        ELSE __mul__(s, Dual(r.val))

\* mutant of __rtruediv__: the operands are not swapped
rtruediv_not_swapped(s, numerator) == __truediv__(s, numerator)

__rtruediv__(s, numerator) ==
    LET c == check(numerator)
    IN  IF Raised(c) THEN c ELSE __truediv__(c.val, Dual(s))

\* v.is_integer(): a float method; int has it only from Python 3.12 on
is_integer(v) ==
    IF v.t = "float" \/ int_is_integer THEN Bool(v.d = 1)
    ELSE Raise("AttributeError", "is_integer")

\* format(s, format_spec): RealDual defines no __format__, and the one it
\* inherits from object refuses every non-empty format_spec
format(s, format_spec) ==
    IF format_spec = "" THEN Value(s) ELSE Raise("TypeError", "__format__")

\* raise ValueError(f"{self:s} ** {power:s} cannot be performed")
CannotBePerformed(s, p) ==
    IF Raised(format(s, "s")) THEN format(s, "s")
    ELSE IF Raised(format(p, "s")) THEN format(p, "s")
    ELSE UndefinedOperation

\* mutant of PowPositive: the power rule keeps the exponent instead of
\* lowering it
pow_exponent_not_lowered(s, p) ==
    Value(RealDual(
        num_pow(s.real, p.real),
        num_add(num_mul(num_mul(num_pow(s.real, p.real), p.real), s.dual),
                num_mul(num_mul(num_pow(s.real, p.real), p.dual), math_log(s.real)))))

\* the branch self.real > 0 of __pow__
PowPositive(s, p) ==
    Value(RealDual(
        num_pow(s.real, p.real),
        num_add(num_mul(num_mul(num_pow(s.real, num_sub(p.real, PyInt(1))), p.real),
                        s.dual),
                num_mul(num_mul(num_pow(s.real, p.real), p.dual), math_log(s.real)))))

\* the branch self.real < 0 of __pow__
PowNegative(s, p) ==
    LET whole == is_integer(p.real)
    IN  IF ~num_eq(p.dual, PyInt(0)) THEN CannotBePerformed(s, p)
        ELSE IF Raised(whole) THEN whole
        ELSE IF ~whole.val THEN CannotBePerformed(s, p)
        ELSE IF num_lt(p.real, PyInt(0)) /\ num_eq(s.real, PyInt(0))
             THEN Raise("ValueError", "reciprocate")
        ELSE Value(RealDual(
                 num_pow(s.real, p.real),
                 num_mul(num_mul(num_pow(s.real, num_sub(p.real, PyInt(1))), p.real),
                         s.dual)))

__pow__(s, power) ==
    LET c == check(power)
        p == c.val
    IN  IF Raised(c) THEN c
        ELSE IF num_lt(PyInt(0), s.real) THEN PowPositive(s, p)
        ELSE IF num_lt(s.real, PyInt(0)) THEN PowNegative(s, p)
        ELSE CannotBePerformed(s, p)

__rpow__(s, base) ==
    LET c == check(base)
    IN  IF Raised(c) THEN c ELSE __pow__(c.val, Dual(s))

\* mutant of exp: the receiver is taken as the base
exp_receiver_as_base(s, base) ==
    LET c == check(base)
    IN  IF Raised(c) THEN c ELSE __pow__(s, Dual(c.val))

exp(s, base) ==
    LET c == check(base)
    IN  IF Raised(c) THEN c ELSE __pow__(c.val, Dual(s))

sin(s) == Value(RealDual(math_sin(s.real), num_mul(s.dual, math_cos(s.real))))

cos(s) == Value(RealDual(math_cos(s.real), num_mul(num_neg(s.dual), math_sin(s.real))))

\* mutant of __eq__: only the real parts are compared
eq_real_only(s, o) ==
    LET c == check(o)
    IN  IF Raised(c) THEN c ELSE Bool(num_eq(s.real, c.val.real))

__eq__(s, o) ==
    LET c == check(o)
        x == c.val
    IN  IF Raised(c) THEN c
        ELSE Bool(num_eq(s.real, x.real) /\ num_eq(s.dual, x.dual))

__neq__(s, o) ==
    LET e == __eq__(s, o)
    IN  IF Raised(e) THEN e ELSE Bool(~e.val)

\* mutant of __str__: the coefficient is always written
str_always_coefficient(s) ==
    Text(num_str(s.real) \o " + " \o num_str(s.dual) \o "ε")

__str__(s) ==
    IF num_eq(s.dual, PyInt(1)) THEN Text(num_str(s.real) \o " + ε")
    ELSE Text(num_str(s.real) \o " + " \o num_str(s.dual) \o "ε")

\* dual_number_lift.py: f_x_dual = (x_dual ** 2) + (4 * x_dual) + 3
f_x_dual(x_dual) ==
    LET sq == __pow__(x_dual, Scalar(PyInt(2)))
        lin == __rmul__(x_dual, Scalar(PyInt(4)))
        sum == __add__(sq.val, Dual(lin.val))
    IN  IF Raised(sq) THEN sq
        ELSE IF Raised(lin) THEN lin
        ELSE IF Raised(sum) THEN sum
        ELSE __add__(sum.val, Scalar(PyInt(3)))

(***************************************************************************)
(* The calls an operation makes, in the order they end: each with its name *)
(* and whether it returned (ok) or raised.  A call that raises ends every  *)
(* call around it; nothing after it is evaluated.                          *)
(***************************************************************************)
Ev(name, outcome) == [name |-> name, ok |-> ~Raised(outcome)]

log_check(o) == <<Ev("check", check(o))>>

log_add(s, o) == log_check(o) \o <<Ev("__add__", __add__(s, o))>>

log_mul(s, o) == log_check(o) \o <<Ev("__mul__", __mul__(s, o))>>

log_reciprocate(s) ==
    (IF num_eq(s.real, PyInt(0)) THEN <<>>
     ELSE <<Ev("conjugate", conjugate(s))>>
          \o log_mul(conjugate(s).val,
                     Scalar(num_truediv(PyInt(1), num_pow(s.real, PyInt(2))))))
    \o <<Ev("reciprocate", reciprocate(s))>>

log_truediv(s, denominator) ==
    LET c == check(denominator)
        r == reciprocate(c.val)
    IN  log_check(denominator)
        \o (IF Raised(c) THEN <<>>
            ELSE log_reciprocate(c.val)
                 \o (IF Raised(r) THEN <<>> ELSE log_mul(s, Dual(r.val))))
        \o <<Ev("__truediv__", __truediv__(s, denominator))>>

log_rtruediv(s, numerator) ==
    LET c == check(numerator)
    IN  log_check(numerator)
        \o (IF Raised(c) THEN <<>> ELSE log_truediv(c.val, Dual(s)))
        \o <<Ev("__rtruediv__", __rtruediv__(s, numerator))>>

log_CannotBePerformed(s, p) ==
    <<Ev("__format__", format(s, "s"))>>
    \o (IF Raised(format(s, "s")) THEN <<>> ELSE <<Ev("__format__", format(p, "s"))>>)

log_PowNegative(s, p) ==
    LET whole == is_integer(p.real)
    IN  IF ~num_eq(p.dual, PyInt(0)) THEN log_CannotBePerformed(s, p)
        ELSE <<Ev("is_integer", whole)>>
             \o (IF Raised(whole) \/ whole.val THEN <<>>
                 ELSE log_CannotBePerformed(s, p))

log_pow(s, power) ==
    LET c == check(power)
    IN  log_check(power)
        \o (IF Raised(c) \/ num_lt(PyInt(0), s.real) THEN <<>>
            ELSE IF num_lt(s.real, PyInt(0)) THEN log_PowNegative(s, c.val)
            ELSE log_CannotBePerformed(s, c.val))
        \o <<Ev("__pow__", __pow__(s, power))>>

log_rpow(s, base) ==
    LET c == check(base)
    IN  log_check(base)
        \o (IF Raised(c) THEN <<>> ELSE log_pow(c.val, Dual(s)))
        \o <<Ev("__rpow__", __rpow__(s, base))>>

log_exp(s, base) ==
    LET c == check(base)
    IN  log_check(base)
        \o (IF Raised(c) THEN <<>> ELSE log_pow(c.val, Dual(s)))
        \o <<Ev("exp", exp(s, base))>>

log_eq(s, o) == log_check(o) \o <<Ev("__eq__", __eq__(s, o))>>

log_f_x_dual(x_dual) ==
    LET sq == __pow__(x_dual, Scalar(PyInt(2)))
        lin == __rmul__(x_dual, Scalar(PyInt(4)))
        sum == __add__(sq.val, Dual(lin.val))
    IN  log_pow(x_dual, Scalar(PyInt(2)))
        \o (IF Raised(sq) THEN <<>>
            ELSE log_mul(x_dual, Scalar(PyInt(4)))
                 \o (IF Raised(lin) THEN <<>>
                     ELSE log_add(sq.val, Dual(lin.val))
                          \o (IF Raised(sum) THEN <<>>
                              ELSE log_add(sum.val, Scalar(PyInt(3))))))

(***************************************************************************)
(* The object a method returns: "new" for an instance built by a call of   *)
(* RealDual(...), by the method or by the method it delegates to, and      *)
(* "argument" for the argument itself.                                     *)
(***************************************************************************)
returns_check(o) == IF o.kind = "RealDual" THEN "argument" ELSE "new"

returns_neg == "new"

\* mutant of returns_pos: __pos__ written as `return self`
pos_returns_self == "self"

returns_pos == "new"

returns_conjugate == "new"

returns_add == "new"

returns_mul == "new"

returns_reciprocate == returns_mul

returns_truediv == returns_mul

returns_rtruediv == returns_truediv

returns_pow == "new"

returns_rpow == returns_pow

returns_exp == returns_pow

returns_sin == "new"

returns_cos == "new"

(***************************************************************************)
(* Inputs                                                                  *)
(***************************************************************************)
Floats == {PyFloat(k, 1) : k \in -MaxInt..MaxInt} \cup {PyFloat(1, 2)}

\* receivers: float components, and the int components a caller may pass
\* to the constructor, as main() does with RealDual(1, 1)
SelfInputs ==
    {RealDual(r, d) : r \in Floats, d \in {PyFloat(0, 1), PyFloat(1, 1)}}
    \cup {RealDual(PyInt(r), PyInt(d)) : r \in {-2, 0, 2}, d \in {1, 5}}
    \cup {RealDual(PyInt(3), PyInt(d)) : d \in {1, 2}}

\* arguments: dual numbers, scalars, and values that are neither
OtherDuals ==
    {RealDual(r, d) : r \in Floats, d \in {PyInt(0), PyFloat(1, 1)}}
    \cup {RealDual(PyInt(k), PyInt(0)) : k \in {-1, 2, 3}}

OtherScalars == Floats \cup {PyInt(0), PyInt(2), PyInt(-1)}

OtherInputs ==
    {Dual(x) : x \in OtherDuals} \cup {Scalar(v) : v \in OtherScalars} \cup NonNumeric

\* a result small enough to be used as an operand again
InRange(x) ==
    /\ Abs(x.real.n) <= MaxAbs /\ x.real.d <= MaxAbs
    /\ Abs(x.dual.n) <= MaxAbs /\ x.dual.d <= MaxAbs

(***************************************************************************)
(* The state machine                                                       *)
(***************************************************************************)
Init ==
    /\ self \in SelfInputs
    /\ other \in OtherInputs
    /\ op = "start"
    /\ result = NoResult
    /\ int_is_integer \in BOOLEAN
    /\ depth = 0

\* operation `name` was applied and left `outcome`; the operands are values
\* that no operation assigns to
Apply(name, outcome) ==
    /\ op' = name
    /\ result' = outcome
    /\ UNCHANGED <<self, other, int_is_integer, depth>>

Check == Apply("check", check(other))

Neg == Apply("__neg__", __neg__(self))

Pos == Apply("__pos__", __pos__(self))

Conjugate == Apply("conjugate", conjugate(self))

Reciprocate == Apply("reciprocate", reciprocate(self))

Add == Apply("__add__", __add__(self, other))

RAdd == Apply("__radd__", __radd__(self, other))

Mul == Apply("__mul__", __mul__(self, other))

RMul == Apply("__rmul__", __rmul__(self, other))

TrueDiv == Apply("__truediv__", __truediv__(self, other))

RTrueDiv == Apply("__rtruediv__", __rtruediv__(self, other))

Pow ==
    /\ check(other).kind = "value" => PowExact(self.real, check(other).val.real)
    /\ Apply("__pow__", __pow__(self, other))

RPow ==
    /\ check(other).kind = "value" => PowExact(check(other).val.real, self.real)
    /\ Apply("__rpow__", __rpow__(self, other))

Eq == Apply("__eq__", __eq__(self, other))

Neq == Apply("__neq__", __neq__(self, other))

Polynomial == Apply("f_x_dual", f_x_dual(self))

\* self.exp(other)
Exp ==
    /\ check(other).kind = "value" => PowExact(check(other).val.real, self.real)
    /\ Apply("exp", exp(self, other))

\* self.exp(), with the default base math.e
ExpDefault ==
    /\ PowExact(math_e, self.real)
    /\ Apply("exp()", exp(self, Scalar(math_e)))

Sin == Apply("sin", sin(self))

Cos == Apply("cos", cos(self))

\* str(self), for components whose decimal expansion is finite
Str ==
    /\ FiniteDecimal(self.real.d) /\ FiniteDecimal(self.dual.d)
    /\ Apply("__str__", __str__(self))

\* the value an operation returned becomes an operand of the next ones
Feed ==
    /\ result.kind = "value"
    /\ depth < MaxDepth
    /\ InRange(result.val)
    /\ self' = result.val
    /\ other' = other
    /\ op' = "start"
    /\ result' = NoResult
    /\ depth' = depth + 1
    /\ UNCHANGED int_is_integer

Next ==
    \/ Check \/ Neg \/ Pos \/ Conjugate \/ Reciprocate
    \/ Add \/ RAdd \/ Mul \/ RMul \/ TrueDiv \/ RTrueDiv
    \/ Pow \/ RPow \/ Eq \/ Neq \/ Polynomial
    \/ Str \/ Exp \/ ExpDefault \/ Sin \/ Cos
    \/ Feed

Spec == Init /\ [][Next]_vars

(***************************************************************************)
(* Properties                                                              *)
(***************************************************************************)
IsNumeric(o) == o.kind \in {"RealDual", "int", "float"}

IsScalar(o) == o.kind \in {"int", "float"}

IsZero(v) == num_eq(v, PyInt(0))

\* the value a numeric operand coerces to
Coerced(o) == check(o).val

\* x is the dual number real + dual * epsilon, by value
Equals(x, real, dual) == num_eq(x.real, real) /\ num_eq(x.dual, dual)

\* C1: check is total over three outcomes: an int or float v gives the dual
\* number (v, 0), a dual number is returned as it is, and every other kind
\* of operand fails with InvalidOperand.
C1_CoercionTotal ==
    op = "check" =>
        /\ IsScalar(other) =>
              /\ result.kind = "value"
              /\ Equals(result.val, other.val, PyInt(0))
        /\ other.kind = "RealDual" => result = Value(other.val)
        /\ ~IsNumeric(other) => result = InvalidOperand

C1_Witness ==
    /\ op = "check"
    /\ other = Scalar(PyInt(2))
    /\ result = Value(RealDual(PyFloat(2, 1), PyInt(0)))

\* C2: for +, *, / and **, a scalar s and a dual number x: x op s has the
\* outcome of x op check(s), and s op x the outcome of check(s) op x with
\* the scalar on the left (numerator of /, base of **).
C2_MixedAsCoerced ==
    IsScalar(other) =>
        LET s == Coerced(other)
        IN  /\ op = "__add__" => result = __add__(self, Dual(s))
            /\ op = "__radd__" => result = __add__(s, Dual(self))
            /\ op = "__mul__" => result = __mul__(self, Dual(s))
            /\ op = "__rmul__" => result = __mul__(s, Dual(self))
            /\ op = "__truediv__" => result = __truediv__(self, Dual(s))
            /\ op = "__rtruediv__" => result = __truediv__(s, Dual(self))
            /\ op = "__pow__" => result = __pow__(self, Dual(s))
            /\ op = "__rpow__" => result = __pow__(s, Dual(self))

C2_Witness ==
    /\ op = "__rtruediv__"
    /\ other = Scalar(PyInt(2))
    /\ self = RealDual(PyFloat(2, 1), PyFloat(1, 1))
    /\ result = Value(RealDual(PyFloat(1, 1), PyFloat(-1, 2)))

\* C3: (a, b) * (c, d) never fails and is (a*c, a*d + b*c); the product b*d
\* reaches neither part, so (0, 1) * (0, 1) is (0, 0); and every value an
\* operation returns has exactly a real and a dual part.
C3_Multiplication ==
    /\ op = "__mul__" /\ other.kind = "RealDual" =>
          /\ result.kind = "value"
          /\ Equals(result.val,
                    num_mul(self.real, other.val.real),
                    num_add(num_mul(self.real, other.val.dual),
                            num_mul(self.dual, other.val.real)))
          /\ IsZero(self.real) /\ IsZero(other.val.real) =>
                Equals(result.val, PyInt(0), PyInt(0))
    /\ result.kind = "value" => DOMAIN result.val = {"real", "dual"}

C3_Witness ==
    /\ op = "__mul__"
    /\ self = RealDual(PyFloat(0, 1), PyFloat(1, 1))
    /\ other = Dual(RealDual(PyFloat(0, 1), PyFloat(1, 1)))
    /\ result.kind = "value"
    /\ Equals(result.val, PyInt(0), PyInt(0))

C5_DivisionByZeroGuard ==
    /\ op = "reciprocate" =>
          /\ IsZero(self.real) <=> result = DivisionByZero
          /\ ~IsZero(self.real) => result.kind = "value"
    /\ op = "__truediv__" /\ IsNumeric(other) =>
          /\ IsZero(Coerced(other).real) <=> result = DivisionByZero
          /\ ~IsZero(Coerced(other).real) =>
                /\ result.kind = "value"
                /\ result = __mul__(self, Dual(reciprocate(Coerced(other)).val))
    /\ op = "__rtruediv__" /\ IsNumeric(other) =>
          /\ IsZero(self.real) <=> result = DivisionByZero
          /\ ~IsZero(self.real) =>
                /\ result.kind = "value"
                /\ result = __mul__(Coerced(other), Dual(reciprocate(self).val))

C5_Witness ==
    /\ op = "__rtruediv__"
    /\ other = Scalar(PyFloat(1, 1))
    /\ self = RealDual(PyInt(0), PyInt(5))
    /\ result = DivisionByZero

\* dual_number_lift.py: real_expected = x_val**2 + 4*x_val + 3
real_expected(x_val) ==
    num_add(num_add(num_pow(x_val, PyInt(2)), num_mul(PyInt(4), x_val)), PyInt(3))

\* dual_number_lift.py: dual_expected = 2*x_val + 4
dual_expected(x_val) == num_add(num_mul(PyInt(2), x_val), PyInt(4))

\* C6: for every real x, f(u) = u**2 + 4*u + 3 evaluated on the dual number
\* (x, 1) succeeds and returns (f(x), f'(x)) = (x^2 + 4x + 3, 2x + 4).
C6_ChainRuleEveryX ==
    op = "f_x_dual" /\ num_eq(self.dual, PyInt(1)) =>
        /\ result.kind = "value"
        /\ Equals(result.val, real_expected(self.real), dual_expected(self.real))

\* C7: for a base x with a positive real part and every dual exponent p,
\* x ** p never fails; its real part is x.real^p.real and its dual part is
\* p.real * x.real^(p.real - 1) * x.dual + x.real^p.real * ln(x.real) * p.dual,
\* which for p.dual = 0 is p.real * x.real^(p.real - 1) * x.dual.
C7_PowPositiveBase ==
    op = "__pow__" /\ other.kind = "RealDual" /\ self.real.n > 0 =>
        LET p == other.val
            a == self.real
            power_rule == num_mul(num_mul(p.real, num_pow(a, num_sub(p.real, PyInt(1)))),
                                  self.dual)
            exponent_rule == num_mul(num_mul(num_pow(a, p.real), math_log(a)), p.dual)
        IN  /\ result.kind = "value"
            /\ Equals(result.val, num_pow(a, p.real), num_add(power_rule, exponent_rule))
            /\ IsZero(p.dual) => num_eq(result.val.dual, power_rule)

C7_Witness ==
    /\ op = "__pow__"
    /\ self = RealDual(PyFloat(2, 1), PyFloat(1, 1))
    /\ other = Dual(RealDual(PyInt(3), PyInt(0)))
    /\ result.kind = "value"
    /\ Equals(result.val, PyInt(8), PyInt(12))

\* C8: for a base x with a negative real part and an exponent p with
\* p.dual = 0 and p.real a whole number, x ** p succeeds with real part
\* x.real^p.real and dual part p.real * x.real^(p.real - 1) * x.dual.
C8_PowNegativeBase ==
    /\ op = "__pow__"
    /\ other.kind = "RealDual"
    /\ self.real.n < 0
    /\ IsZero(other.val.dual)
    /\ other.val.real.d = 1
    => /\ result.kind = "value"
       /\ Equals(result.val,
                 num_pow(self.real, other.val.real),
                 num_mul(num_mul(other.val.real,
                                 num_pow(self.real, num_sub(other.val.real, PyInt(1)))),
                         self.dual))

\* C9: x ** p fails with UndefinedOperation when x.real < 0 and the exponent
\* has a dual part or is not a whole number, and when x.real = 0 for every
\* exponent.
C9_PowUndefined ==
    /\ op = "__pow__"
    /\ other.kind = "RealDual"
    /\ \/ self.real.n < 0 /\ (~IsZero(other.val.dual) \/ other.val.real.d # 1)
       \/ IsZero(self.real)
    => result = UndefinedOperation

\* C10: x == y is true exactly when check(y) has the real and the dual part
\* of x, so x == r for a scalar r holds iff x.real = r and x.dual = 0; an
\* operand that is neither a scalar nor a dual number fails with
\* InvalidOperand.
C10_EqualityExact ==
    op = "__eq__" =>
        /\ IsNumeric(other) =>
              result = Bool(Coerced(other).real.n * self.real.d
                                = self.real.n * Coerced(other).real.d
                            /\ Coerced(other).dual.n * self.dual.d
                                = self.dual.n * Coerced(other).dual.d)
        /\ IsScalar(other) =>
              result = Bool(num_eq(self.real, other.val) /\ IsZero(self.dual))
        /\ ~IsNumeric(other) => result = InvalidOperand

C10_Witness ==
    /\ op = "__eq__"
    /\ self = RealDual(PyFloat(2, 1), PyFloat(0, 1))
    /\ other = Scalar(PyInt(2))
    /\ result = Bool(TRUE)

\* C11: str(x) is "{real} + ε", without the coefficient, exactly when the
\* dual part equals 1, and "{real} + {dual}ε" for every other dual part;
\* RealDual(3, 1) renders as "3 + ε" and RealDual(3, 2) as "3 + 2ε".
C11_Rendering ==
    op = "__str__" =>
        /\ result.kind = "str"
        /\ result.val = num_str(self.real) \o " + ε" <=> num_eq(self.dual, PyInt(1))
        /\ ~num_eq(self.dual, PyInt(1)) =>
              result.val = num_str(self.real) \o " + " \o num_str(self.dual) \o "ε"
        /\ self = RealDual(PyInt(3), PyInt(1)) => result.val = "3 + ε"
        /\ self = RealDual(PyInt(3), PyInt(2)) => result.val = "3 + 2ε"
        /\ self = RealDual(PyFloat(1, 2), PyFloat(0, 1)) => result.val = "0.5 + 0.0ε"

C11_Witness ==
    /\ op = "__str__"
    /\ self = RealDual(PyInt(3), PyInt(1))
    /\ result = Text("3 + ε")

\* C12: x.exp(b) has the outcome of check(b) ** x, with x as the exponent,
\* for every scalar or dual base b; with the default base math.e, x.exp()
\* never fails and its dual part is its real part times x.dual.
C12_Exp ==
    /\ op = "exp" /\ IsNumeric(other) =>
          result = __pow__(Coerced(other), Dual(self))
    /\ op = "exp()" =>
          /\ result.kind = "value"
          /\ num_eq(result.val.real, num_pow(math_e, self.real))
          /\ num_eq(result.val.dual, num_mul(result.val.real, self.dual))

C12_Witness ==
    /\ op = "exp()"
    /\ self = RealDual(PyFloat(2, 1), PyFloat(1, 1))
    /\ result.kind = "value"
    /\ Equals(result.val, num_pow(math_e, PyInt(2)), num_pow(math_e, PyInt(2)))

\* the calls made by the operation that left `result`
Calls ==
    CASE op = "check" -> log_check(other)
      [] op \in {"__add__", "__radd__"} -> log_add(self, other)
      [] op \in {"__mul__", "__rmul__"} -> log_mul(self, other)
      [] op = "reciprocate" -> log_reciprocate(self)
      [] op = "__truediv__" -> log_truediv(self, other)
      [] op = "__rtruediv__" -> log_rtruediv(self, other)
      [] op = "__pow__" -> log_pow(self, other)
      [] op = "__rpow__" -> log_rpow(self, other)
      [] op = "exp" -> log_exp(self, other)
      [] op = "exp()" -> log_exp(self, Scalar(math_e))
      [] op = "__eq__" -> log_eq(self, other)
      [] op = "__neq__" -> log_eq(self, other) \o <<Ev("__neq__", __neq__(self, other))>>
      [] op = "f_x_dual" -> log_f_x_dual(self)
      [] OTHER -> <<Ev(op, result)>>

\* the first call that raised is the call `failure` names; every call before
\* it returned and every call that ended after it raised as well
AbortsAtFirstFailure(log, failure) ==
    \E i \in 1..Len(log) :
        /\ ~log[i].ok
        /\ log[i].name = failure.src
        /\ \A j \in 1..Len(log) : log[j].ok <=> j < i

\* C13: every failure is raised by the operation that detects it, with that
\* operation's kind (InvalidOperand from check, DivisionByZero from
\* reciprocate, UndefinedOperation from __pow__); it is never replaced by a
\* value; and it ends the expression at the first call that fails: nothing
\* is evaluated after it (in x / y no multiplication follows a failed
\* reciprocate).
C13_FailurePropagation ==
    op # "start" =>
        /\ Raised(result) =>
              /\ result \in {InvalidOperand, DivisionByZero, UndefinedOperation}
              /\ AbortsAtFirstFailure(Calls, result)
              /\ op \in {"__truediv__", "__rtruediv__"} /\ result = DivisionByZero =>
                    \A i \in 1..Len(Calls) : Calls[i].name # "__mul__"
        /\ ~Raised(result) => \A i \in 1..Len(Calls) : Calls[i].ok

\* the same, whatever the exception the failing call raised
PropagationWhateverKind ==
    op # "start" =>
        /\ Raised(result) =>
              /\ AbortsAtFirstFailure(Calls, result)
              /\ op \in {"__truediv__", "__rtruediv__"} /\ result = DivisionByZero =>
                    \A i \in 1..Len(Calls) : Calls[i].name # "__mul__"
        /\ ~Raised(result) => \A i \in 1..Len(Calls) : Calls[i].ok

\* the object the last operation returned, when it returned an instance
Returns ==
    CASE op = "check" -> returns_check(other)
      [] op = "__neg__" -> returns_neg
      [] op = "__pos__" -> returns_pos
      [] op = "conjugate" -> returns_conjugate
      [] op = "reciprocate" -> returns_reciprocate
      [] op \in {"__add__", "__radd__"} -> returns_add
      [] op \in {"__mul__", "__rmul__"} -> returns_mul
      [] op = "__truediv__" -> returns_truediv
      [] op = "__rtruediv__" -> returns_rtruediv
      [] op = "__pow__" -> returns_pow
      [] op = "__rpow__" -> returns_rpow
      [] op \in {"exp", "exp()"} -> returns_exp
      [] op = "sin" -> returns_sin
      [] op = "cos" -> returns_cos
      [] op = "f_x_dual" -> returns_add
      [] OTHER -> "new"

Operations ==
    {"__neg__", "__pos__", "conjugate", "reciprocate", "__add__", "__radd__",
     "__mul__", "__rmul__", "__truediv__", "__rtruediv__", "__pow__", "__rpow__",
     "exp", "exp()", "sin", "cos", "__eq__", "__neq__", "__str__", "f_x_dual"}

====
